---- MODULE Spec2Model ----
(***************************************************************************)
(* The four DigitalOcean facts modules (images, regions, sizes, snapshots) *)
(* of lib/ansible/modules/cloud/digital_ocean, modelled as one sequential  *)
(* state machine per invocation of core(module) under main().              *)
(*                                                                         *)
(* The provider is the environment: every rest.get() is answered with a    *)
(* response drawn from the shapes the DigitalOcean API v2 produces:        *)
(*   - a success page: status 200, body {<collection>: [...], links: ...}  *)
(*   - a success object: status 200, body {snapshot: {...}}                *)
(*   - an error: status != 200, body {id: ..., message: ...}               *)
(* module.fail_json() and module.exit_json() end the process (they raise   *)
(* SystemExit, which `except Exception` in main() does not catch); every   *)
(* other exception raised in core() is caught by main() and reported with  *)
(* fail_json(msg=to_native(e)).                                            *)
(***************************************************************************)
EXTENDS Integers, Sequences, FiniteSets, TLC

VARIABLES
    mod,          \* which module runs: "images", "regions", "sizes", "snapshots"
    subtype,      \* module.params['image_type'] / ['snapshot_type'] ("none" if the module has no selector)
    pc,           \* position in core(): "start", "by_id", "sizes", "loop", "check", "done"
    base_url,     \* local base_url
    page,         \* local page
    has_next,     \* local has_next
    status_code,  \* local status_code
    data,         \* local images / regions / snapshot (a Python list)
    response,     \* local response (the last one received)
    requests,     \* log of the rest.get() calls issued, in order
    responses,    \* log of the responses received, in order
    outcome       \* what the process reported on exit

vars == <<mod, subtype, pc, base_url, page, has_next, status_code, data,
          response, requests, responses, outcome>>

----------------------------------------------------------------------------
(* Bounds of the model *)

MaxPages == 3    \* the provider is asked for at most this many pages
MaxItems == 2    \* a page carries at most this many items

----------------------------------------------------------------------------
(* Values *)

\* A Python list and a Python dict.  A dict keeps its pairs in iteration order.
List(s) == [t |-> "list", v |-> s]
Dict(p) == [t |-> "dict", v |-> p]

\* What `for x in value` yields: the elements of a list, the KEYS of a dict.
Iterate(value) ==
    IF value.t = "dict"
    THEN [i \in 1..Len(value.v) |-> value.v[i][1]]
    ELSE value.v

\* list.extend(iterable): appends every element the iterable yields.
ExtendReplaces(list, iterable) == Iterate(iterable)
Extend(list, iterable) == list \o Iterate(iterable)

Items == {"i1", "i2"}

ItemLists == UNION {[1..n -> Items] : n \in 0..MaxItems}

\* response.json["links"]: no "pages" key, "pages" without "next", "pages" with "next".
NoLinks == [k \in {} |-> {}]
LinksValues == {NoLinks, "pages" :> {"last"}, "pages" :> {"next", "last"}}

Messages == {"Server Error"}

ErrorBody(m) == ("id" :> "error") @@ ("message" :> m)

ErrorStatuses == {404, 500}

ProbeStatuses == {200, 401, 500}

\* The snapshot objects the provider may return for a by_id lookup.
SnapshotObjects ==
    { Dict(<< <<"id", "123123123">>, <<"name", "snap">> >>),
      Dict(<< <<"name", "snap">>, <<"id", "123123123">> >>),
      Dict(<< <<"id", "123123123">> >>) }

----------------------------------------------------------------------------
(* The provider's answers *)

\* The key of the collection in a page body.
CollectionKey(m) == m

\* has_next = "pages" in response.json["links"] and "next" in response.json["links"]["pages"]
HasNext(json) ==
    /\ "pages" \in DOMAIN json["links"]
    /\ "next" \in json["links"]["pages"]

\* A page that has a successor is full: MaxItems stands for per_page.
SuccessPages(m) ==
    { [status_code |-> 200,
       json |-> (CollectionKey(m) :> List(p[1])) @@ ("links" :> p[2])] :
         p \in { q \in ItemLists \X LinksValues :
                   ("pages" \in DOMAIN q[2] /\ "next" \in q[2]["pages"])
                      => Len(q[1]) = MaxItems } }

Errors ==
    { [status_code |-> s, json |-> ErrorBody(msg)] : s \in ErrorStatuses, msg \in Messages }

PageResponses(m) == SuccessPages(m) \cup Errors

ObjectResponses ==
    { [status_code |-> 200, json |-> ("snapshot" :> o)] : o \in SnapshotObjects } \cup Errors

ProbeResponses ==
    { [status_code |-> s,
       json |-> IF s = 200 THEN ("account" :> "acct") ELSE ErrorBody("Unable to authenticate you")] :
         s \in ProbeStatuses }

NoResponse == [status_code |-> 0, json |-> NoLinks]

----------------------------------------------------------------------------
(* URL building *)

SnapshotId == "123123123"

ImagesBaseUrl(image_type) ==
    "images?" \o
      (CASE image_type = "distribution" -> "type=distribution&"
         [] image_type = "application" -> "type=application&"
         [] image_type = "private" -> "private=true&"
         [] OTHER -> "")

SnapshotsBaseUrl(snapshot_type) ==
    "snapshots" \o
      (CASE snapshot_type = "droplet" -> "?resource_type=droplet&"
         [] snapshot_type = "volume" -> "?resource_type=volume&"
         [] OTHER -> "")

RegionsBaseUrl == "regions?"

BaseUrl(m, st) ==
    CASE m = "images" -> ImagesBaseUrl(st)
      [] m = "snapshots" -> SnapshotsBaseUrl(st)
      [] OTHER -> RegionsBaseUrl

\* "{0}page={1}&per_page=20".format(base_url, page)
RequiredUrl(base, p) == base \o "page=" \o ToString(p) \o "&per_page=20"

----------------------------------------------------------------------------
(* Conditions of core() *)

\* if response.status_code == 401
UnauthorizedAnyError(status) == status # 200
UnauthorizedForbidden(status) == status = 403
Unauthorized(status) == status = 401

\* if 200 != status_code / if status_code != 200
NotOkServerOnly(status) == status >= 500
NotOk(status) == 200 # status

\* while has_next or status_code != 200
LoopCondAnd(hn, status) == hn /\ status # 200
LoopCond(hn, status) == hn \/ status # 200

\* page += 1
NextPageSkips(p) == p + 2
NextPage(p) == p + 1

----------------------------------------------------------------------------
(* Reports *)

NoOutcome == [kind |-> "none"]

\* module.exit_json(changed=False, data=...)
ExitJson(d) == [kind |-> "success", changed |-> FALSE, data |-> d]

\* module.fail_json(msg=...)
FailJson(kind, msg) == [kind |-> kind, msg |-> msg]

AuthFailureMsg(m) ==
    IF m \in {"images", "snapshots"}
    THEN "Failed to login using api_token, please verify validity of api_token"
    ELSE "Failed to login using API token, please verify validity of API token."

AuthFailure(m) == FailJson("auth_failure", AuthFailureMsg(m))

FetchFailureMsg(m) ==
    CASE m = "images" -> "Failed to fetch images facts due to error : "
      [] m = "regions" -> "Failed to fetch 'regions' facts due to error : "
      [] m = "sizes" -> "Failed to fetch 'sizes' facts due to error : "
      [] OTHER -> "Failed to fetch snapshot facts due to error : "

\* main(): except Exception as e: module.fail_json(msg=to_native(e), ...)
\* for a KeyError raised by response.json[key]
KeyError(key) == FailJson("unexpected_failure", "'" \o key \o "'")

\* if status_code != 200: fail_json(... % response.json['message']) else exit_json(data)
FinalReport(m, status, resp, d) ==
    IF NotOk(status)
    THEN IF "message" \in DOMAIN resp.json
         THEN FailJson("fetch_failure", FetchFailureMsg(m) \o resp.json["message"])
         ELSE KeyError("message")
    ELSE ExitJson(d)

----------------------------------------------------------------------------
(* The state machine *)

Invocations ==
    ({"images"} \X {"all", "application", "distribution", "private"})
      \cup ({"regions", "sizes"} \X {"none"})
      \cup ({"snapshots"} \X {"all", "droplet", "volume", "by_id"})

Request(url, p) == [url |-> url, page |-> p]

Init ==
    /\ \E inv \in Invocations : mod = inv[1] /\ subtype = inv[2]
    /\ pc = "start"
    /\ base_url = ""
    /\ page = 0
    /\ has_next = FALSE
    /\ status_code = 0
    /\ data = <<>>
    /\ response = NoResponse
    /\ requests = <<>>
    /\ responses = <<>>
    /\ outcome = NoOutcome

\* rest.get('account'), the 401 check, and the initialisation of the locals
\* up to the first request of the module's fetch.
Probe(resp) ==
    /\ pc = "start"
    /\ requests' = Append(requests, Request("account", 0))
    /\ responses' = Append(responses, resp)
    /\ response' = resp
    /\ IF Unauthorized(resp.status_code)
       THEN /\ outcome' = AuthFailure(mod)
            /\ pc' = "done"
            /\ UNCHANGED <<base_url, page, has_next, status_code, data>>
       ELSE /\ outcome' = outcome
            /\ CASE mod = "sizes" ->
                      /\ pc' = "sizes"
                      /\ UNCHANGED <<base_url, page, has_next, status_code, data>>
                 [] mod = "snapshots" /\ subtype = "by_id" ->
                      /\ pc' = "by_id"
                      /\ base_url' = "snapshots"
                      /\ data' = <<>>
                      /\ status_code' = 400
                      /\ UNCHANGED <<page, has_next>>
                 [] OTHER ->
                      /\ base_url' = BaseUrl(mod, subtype)
                      /\ page' = 1
                      /\ has_next' = TRUE
                      /\ data' = <<>>
                      /\ status_code' = 400
                      /\ pc' = IF LoopCond(TRUE, 400) THEN "loop" ELSE "check"
    /\ UNCHANGED <<mod, subtype>>

\* One iteration of the while loop, with the test of the loop condition that
\* follows it.
FetchPage(resp) ==
    /\ pc = "loop"
    /\ page <= MaxPages
    /\ requests' = Append(requests, Request(RequiredUrl(base_url, page), page))
    /\ responses' = Append(responses, resp)
    /\ response' = resp
    /\ status_code' = resp.status_code
    /\ IF NotOk(resp.status_code)
       THEN \* break
            /\ pc' = "check"
            /\ UNCHANGED <<page, data, has_next, outcome>>
       ELSE IF CollectionKey(mod) \notin DOMAIN resp.json
            THEN /\ page' = NextPage(page)
                 /\ outcome' = KeyError(CollectionKey(mod))
                 /\ pc' = "done"
                 /\ UNCHANGED <<data, has_next>>
            ELSE IF "links" \notin DOMAIN resp.json
            THEN /\ page' = NextPage(page)
                 /\ data' = Extend(data, resp.json[CollectionKey(mod)])
                 /\ outcome' = KeyError("links")
                 /\ pc' = "done"
                 /\ UNCHANGED has_next
            ELSE /\ page' = NextPage(page)
                 /\ data' = Extend(data, resp.json[CollectionKey(mod)])
                 /\ has_next' = HasNext(resp.json)
                 /\ pc' = IF LoopCond(HasNext(resp.json), resp.status_code)
                          THEN "loop" ELSE "check"
                 /\ outcome' = outcome
    /\ UNCHANGED <<mod, subtype, base_url>>

\* snapshot_type == 'by_id': one GET on snapshots/<id>, then
\* snapshot.extend(response.json["snapshot"]).
FetchById(resp) ==
    /\ pc = "by_id"
    /\ base_url' = base_url \o "/" \o SnapshotId
    /\ requests' = Append(requests, Request(base_url', 0))
    /\ responses' = Append(responses, resp)
    /\ response' = resp
    /\ status_code' = resp.status_code
    /\ IF "snapshot" \in DOMAIN resp.json
       THEN /\ data' = Extend(data, resp.json["snapshot"])
            /\ pc' = "check"
            /\ outcome' = outcome
       ELSE /\ outcome' = KeyError("snapshot")
            /\ pc' = "done"
            /\ data' = data
    /\ UNCHANGED <<mod, subtype, page, has_next>>

\* The sizes module: rest.get('sizes'), the status check and the report.
FetchSizes(resp) ==
    /\ pc = "sizes"
    /\ requests' = Append(requests, Request("sizes", 0))
    /\ responses' = Append(responses, resp)
    /\ response' = resp
    /\ outcome' =
         IF NotOk(resp.status_code)
         THEN IF "message" \in DOMAIN resp.json
              THEN FailJson("fetch_failure", FetchFailureMsg(mod) \o resp.json["message"])
              ELSE KeyError("message")
         ELSE IF "sizes" \in DOMAIN resp.json
              THEN ExitJson(resp.json["sizes"].v)
              ELSE KeyError("sizes")
    /\ pc' = "done"
    /\ UNCHANGED <<mod, subtype, base_url, page, has_next, status_code, data>>

\* After the loop or the by_id lookup: fail_json on a non-200 status_code,
\* exit_json with the accumulated list otherwise.
Report ==
    /\ pc = "check"
    /\ outcome' = FinalReport(mod, status_code, response, data)
    /\ pc' = "done"
    /\ UNCHANGED <<mod, subtype, base_url, page, has_next, status_code, data,
                   response, requests, responses>>

Next ==
    \/ \E resp \in ProbeResponses : Probe(resp)
    \/ \E resp \in PageResponses(mod) : FetchPage(resp)
    \/ \E resp \in ObjectResponses : FetchById(resp)
    \/ \E resp \in PageResponses("sizes") : FetchSizes(resp)
    \/ Report

Spec == Init /\ [][Next]_vars

----------------------------------------------------------------------------
(* Vocabulary of the properties *)

\* The invocation lists a collection page by page.
Paginated == mod \in {"images", "regions", "snapshots"} /\ subtype # "by_id"

ById == mod = "snapshots" /\ subtype = "by_id"

\* The number of requests issued after the pre-flight probe.
FetchCount == Len(requests) - 1

\* The provider answered with a success status / with a next link.
Served(r) == r.status_code = 200
ServedNext(r) ==
    /\ "links" \in DOMAIN r.json
    /\ "pages" \in DOMAIN r.json["links"]
    /\ "next" \in r.json["links"]["pages"]

\* The probe was answered, and not with 401.
ProbePassed == Len(responses) >= 1 /\ responses[1].status_code # 401

\* The items of the pages answered by responses[from..Len(responses)], in
\* page order then in-page order.
RECURSIVE ItemsFrom(_)
ItemsFrom(from) ==
    IF from > Len(responses)
    THEN <<>>
    ELSE responses[from].json[mod].v \o ItemsFrom(from + 1)

LastResponse == responses[Len(responses)]

----------------------------------------------------------------------------
\* C1: when the provider serves a paginated listing as P >= 1 success pages,
\* with a next link on every page but the last, the module issues exactly P
\* page requests and reports success with the pages' items concatenated in
\* page order then in-page order.
C1_CompleteListing ==
    ( /\ Paginated
      /\ Len(responses) >= 2
      /\ \A i \in 2..Len(responses) :
            /\ Served(responses[i])
            /\ ServedNext(responses[i]) <=> i < Len(responses) )
    => /\ pc \in {"check", "done"}
       /\ FetchCount = Len(responses) - 1
       /\ data = ItemsFrom(2)
       /\ pc = "done" =>
            outcome = [kind |-> "success", changed |-> FALSE, data |-> ItemsFrom(2)]

\* Three pages, items on the first and the last, reported.
C1_Witness ==
    /\ Paginated
    /\ pc = "done"
    /\ outcome.kind = "success"
    /\ FetchCount = 3
    /\ responses[2].json[mod].v # <<>>
    /\ responses[4].json[mod].v # <<>>
    /\ responses[2].json[mod].v # responses[4].json[mod].v

\* C2: when page k is the first to return a non-success status, exactly k
\* page requests are issued and the invocation ends in a Fetch Failure that
\* carries the provider's message; no success is reported.
C2_FirstFailureAborts ==
    \A k \in 2..Len(responses) :
       (Paginated /\ ~Served(responses[k])) =>
          /\ k = Len(responses)
          /\ FetchCount = k - 1
          /\ pc \in {"check", "done"}
          /\ outcome.kind # "success"
          /\ pc = "done" =>
               outcome = [kind |-> "fetch_failure",
                          msg |-> FetchFailureMsg(mod) \o responses[k].json["message"]]

\* The third page fails after two pages with items.
C2_Witness ==
    /\ Paginated
    /\ pc = "done"
    /\ FetchCount = 3
    /\ ~Served(responses[4])
    /\ Len(data) >= 2
    /\ outcome.kind = "fetch_failure"

\* C3: in every module, a 401 on the pre-flight probe ends the invocation in
\* an Authentication Failure and no other request is ever issued.
C3_UnauthorizedStops ==
    (Len(responses) >= 1 /\ responses[1].status_code = 401) =>
       /\ pc = "done"
       /\ outcome = [kind |-> "auth_failure", msg |-> AuthFailureMsg(mod)]
       /\ requests = <<Request("account", 0)>>

C3_Witness ==
    /\ Len(responses) = 1
    /\ responses[1].status_code = 401
    /\ pc = "done"
    /\ outcome.kind = "auth_failure"

\* C4: a by_id lookup answered with a success status issues one request
\* besides the probe and reports success with a one-element list holding the
\* returned snapshot object.
C4_ByIdOneElement ==
    (ById /\ pc = "done" /\ Len(responses) = 2 /\ Served(responses[2])) =>
       /\ FetchCount = 1
       /\ outcome = [kind |-> "success", changed |-> FALSE,
                     data |-> <<responses[2].json["snapshot"]>>]

\* C5: a by_id lookup answered with a non-success status issues one request
\* and ends in a Fetch Failure carrying the provider's message.
C5_ByIdFetchFailure ==
    (ById /\ pc = "done" /\ Len(responses) = 2 /\ ~Served(responses[2])) =>
       /\ FetchCount = 1
       /\ outcome = [kind |-> "fetch_failure",
                     msg |-> FetchFailureMsg(mod) \o responses[2].json["message"]]

\* C6: every module that lists a collection, sizes included, follows the
\* pagination to the last page: a success is reported only once a page
\* without a next link was served, and its data are the items of all the
\* pages of the collection.
C6_AllModulesPaginate ==
    (~ById /\ pc = "done" /\ outcome.kind = "success") =>
       /\ ~ServedNext(LastResponse)
       /\ outcome.data = ItemsFrom(2)

\* C7: the requests are the pre-flight probe first, then page requests
\* numbered 1, 2, ..., k in order, each issued only after the previous page
\* was served with a next link; nothing is requested twice or skipped, and
\* nothing is requested after a non-success response to a fetch.
C7_RequestOrder ==
    /\ Len(requests) = Len(responses)
    /\ pc # "start" => Len(requests) >= 1
    /\ Len(requests) >= 1 => requests[1] = Request("account", 0)
    /\ Len(requests) >= 2 => responses[1].status_code # 401
    /\ Paginated =>
         \A i \in 2..Len(requests) :
            /\ requests[i].page = i - 1
            /\ requests[i].url = base_url \o "page=" \o ToString(i - 1) \o "&per_page=20"
            /\ i > 2 => Served(responses[i - 1]) /\ ServedNext(responses[i - 1])
    /\ \A i \in 2..Len(responses) : ~Served(responses[i]) => i = Len(requests)

C7_Witness ==
    /\ Paginated
    /\ Len(requests) = 4
    /\ requests[4].page = 3
    /\ ~Served(responses[4])

\* C8: the loop goes on exactly as long as every page so far was served with
\* a success status and a next link, each time asking for the next page
\* number; it ends at the first page that is not, so a single-page collection
\* takes one fetch, and a provider that always serves a next link is asked
\* for page after page without end.
C8_LoopTermination ==
    (Paginated /\ ProbePassed) =>
       /\ pc = "loop" <=>
            \A i \in 2..Len(responses) : Served(responses[i]) /\ ServedNext(responses[i])
       /\ pc = "loop" =>
            /\ page = Len(responses)
            /\ has_next \/ status_code # 200
       /\ \A i \in 2..Len(responses) :
            ~(Served(responses[i]) /\ ServedNext(responses[i])) => i = Len(responses)
       /\ (Len(responses) >= 2 /\ Served(responses[2]) /\ ~ServedNext(responses[2]))
            => (pc # "loop" /\ FetchCount = 1)

\* Two pages served with a next link, the loop about to ask for the third.
C8_Witness ==
    /\ Paginated
    /\ pc = "loop"
    /\ page = 3
    /\ FetchCount = 2

\* The subtype filter of a listing, as the provider's API names it.
SubtypeFilter ==
    CASE mod = "images" /\ subtype = "distribution" -> "type=distribution&"
      [] mod = "images" /\ subtype = "application" -> "type=application&"
      [] mod = "images" /\ subtype = "private" -> "private=true&"
      [] mod = "snapshots" /\ subtype = "droplet" -> "resource_type=droplet&"
      [] mod = "snapshots" /\ subtype = "volume" -> "resource_type=volume&"
      [] OTHER -> ""

\* C9: every page request of the images and snapshots modules is the resource
\* path, then '?', then the subtype filter and '&' unless the subtype is
\* 'all', then 'page=<k>&per_page=20'.
C9_WellFormedUrls ==
    (Paginated /\ mod \in {"images", "snapshots"}) =>
       \A i \in 2..Len(requests) :
          requests[i].url =
             mod \o "?" \o SubtypeFilter \o "page=" \o ToString(i - 1) \o "&per_page=20"

\* C10: a probe answered with any status other than 401 is ignored: no
\* Authentication Failure is reported, the fetch requests are issued, and the
\* report follows from the answers to the fetch requests: success when the
\* last of them was served, the Fetch Failure with its message when not.
C10_OnlyUnauthorizedIsAuthFailure ==
    ProbePassed =>
       /\ outcome.kind # "auth_failure"
       /\ Len(responses) = 1 => (pc # "done" /\ outcome = NoOutcome)
       /\ pc = "done" =>
            /\ FetchCount >= 1
            /\ outcome.kind = "success" <=> Served(LastResponse)
            /\ ~ById =>
                 /\ outcome.kind \in {"success", "fetch_failure"}
                 /\ outcome.kind = "fetch_failure" =>
                      outcome.msg = FetchFailureMsg(mod) \o LastResponse.json["message"]

C10_Witness ==
    /\ pc = "done"
    /\ responses[1].status_code = 500
    /\ mod = "regions"
    /\ outcome.kind = "success"
    /\ Len(outcome.data) >= 2

====
